---- MODULE Spec2Model ----
(***************************************************************************)
(* Santoor TV optimizer: the recommendation engine of                      *)
(* src/utils/optimization.ts (calculateStatus, getProtectedChannels,       *)
(* runOptimization, filterRelevantChannels) and the state, effects and     *)
(* handlers of the App component of src/App.tsx that call it.              *)
(*                                                                         *)
(* Units.  santoorReach, maxCompReach, gap and channelShare are held in    *)
(* tenths (15 stands for 1.5, -30 for -3.0), so every comparison of the    *)
(* source against 1.5, 2.0, 3, 5, -1, -2, -3, -5 is a comparison against   *)
(* 15, 20, 30, 50, -10, -20, -30, -50.  indexVsCompetition, intensity and  *)
(* threshold are whole numbers.                                            *)
(***************************************************************************)
EXTENDS Integers, Sequences, FiniteSets

VARIABLES channels, intensity, threshold, results, statuses, protectedList,
          done, santoorData, app

vars ==
    <<channels, intensity, threshold, results, statuses, protectedList, done,
      santoorData, app>>

----------------------------------------------------------------------------
(* Bounds and input domains *)

MaxLen == 2

IntensityValues == {4, 5, 10, 11, 20, 21, 30, 31}

ThresholdValues == {0, 50, 70, 100}

AbsentMaxCompValues == {0, 10, 20, 30, 50, 60}

ShareValues == {5, 10, 20}

GapValues == {-60, -50, -30, -20, -15, -10}

IndexValues == {40, 70, 80, 90, 100, 120, 121}

ChannelRecord(c, s, m, g, sh, ix) ==
    [channel |-> c, santoorReach |-> s, maxCompReach |-> m, gap |-> g,
     channelShare |-> sh, indexVsCompetition |-> ix]

\* Records of channel "a" on which Santoor is absent.
AbsentRecords ==
    {ChannelRecord("a", 0, m, g, sh, ix) :
        m \in AbsentMaxCompValues, g \in {-60, -10}, sh \in ShareValues,
        ix \in {0, 100}}

\* Records of channel "a" on which Santoor is present.
PresentRecords ==
    {ChannelRecord("a", s, 20, g, 10, ix) :
        s \in {10, 15}, g \in GapValues, ix \in IndexValues}

\* Records of channel "a" whose index sits on or next to a status limit.
StatusRecords ==
    {ChannelRecord("a", 10, m, -10, 10, ix) :
        m \in {0, 20}, ix \in {49, 50, 79, 99, 149, 150}}

SubjectRecords == AbsentRecords \cup PresentRecords \cup StatusRecords

\* The records that accompany a subject record in a list: a stronger
\* channel, a channel of equal reach and a second record of channel "a".
FillerRecords ==
    {ChannelRecord("b", 20, 20, -10, 10, 95),
     ChannelRecord("b", 10, 20, -10, 10, 95),
     ChannelRecord("a", 20, 20, -10, 10, 95)}

SeqsOfLen(S, n) == [1..n -> S]

InsertAt(s, p, e) == SubSeq(s, 1, p - 1) \o <<e>> \o SubSeq(s, p, Len(s))

\* Record lists of at most MaxLen records, at most one of them a subject.
RecordLists ==
    UNION {SeqsOfLen(FillerRecords, n) : n \in 0..MaxLen}
    \cup
    UNION {{InsertAt(f, p, r) : f \in SeqsOfLen(FillerRecords, n - 1),
                                p \in 1..n, r \in SubjectRecords}
           : n \in 1..MaxLen}

----------------------------------------------------------------------------
(* Number formatting: Number.prototype.toFixed and template literals *)

Digit(d) ==
    CASE d = 0 -> "0" [] d = 1 -> "1" [] d = 2 -> "2" [] d = 3 -> "3"
      [] d = 4 -> "4" [] d = 5 -> "5" [] d = 6 -> "6" [] d = 7 -> "7"
      [] d = 8 -> "8" [] d = 9 -> "9"

RECURSIVE NatToString(_)
NatToString(n) ==
    IF n < 10 THEN Digit(n) ELSE NatToString(n \div 10) \o Digit(n % 10)

\* `${n}` of a whole number.
NumberToString(n) ==
    IF n < 0 THEN "-" \o NatToString(0 - n) ELSE NatToString(n)

\* x.toFixed(1) of a value held in tenths.
toFixed1(t) ==
    LET a == IF t < 0 THEN 0 - t ELSE t
    IN  (IF t < 0 THEN "-" ELSE "") \o NatToString(a \div 10) \o "."
        \o Digit(a % 10)

\* x.toFixed(0) of a whole number.
toFixed0(n) == NumberToString(n)

----------------------------------------------------------------------------
(* Long record lists *)

\* Lists for the size of the protected set: n channels of distinct names
\* and rising reach, after z channels on which Santoor is absent.
MaxRank == 25

MaxAbsent == 1

RankThresholds == 0..100

RankRecord(i) == ChannelRecord("c" \o NatToString(i), 10 * i, 20, -10, 10, 95)

AbsentRankRecord(i) == ChannelRecord("z" \o NatToString(i), 0, 20, -10, 10, 0)

RankList(n, z) ==
    [i \in 1..(z + n) |->
        IF i <= z THEN AbsentRankRecord(i) ELSE RankRecord(i - z)]

RankLists == {RankList(n, z) : n \in 0..MaxRank, z \in 0..MaxAbsent}

----------------------------------------------------------------------------
(* calculateStatus *)

\* Variant: the third test (competitor present, no opportunity) is missing.
calculateStatusNoThird(ch) ==
    IF ch.santoorReach = 0 /\ ch.maxCompReach = 0 THEN "INACTIVE"
    ELSE IF ch.santoorReach = 0 /\ ch.maxCompReach >= 20
            /\ ch.channelShare >= 10 THEN "OPPORTUNITY"
    ELSE IF ch.santoorReach > 0 /\ ch.maxCompReach = 0 THEN "MONOPOLY"
    ELSE IF ch.indexVsCompetition >= 150 THEN "DOMINANT"
    ELSE IF ch.indexVsCompetition >= 100 THEN "LEADING"
    ELSE IF ch.indexVsCompetition >= 80 THEN "CLOSE"
    ELSE IF ch.indexVsCompetition >= 50 THEN "BEHIND"
    ELSE "CRITICAL"

\* Variant: the index limits are read as exclusive.
calculateStatusStrict(ch) ==
    IF ch.santoorReach = 0 /\ ch.maxCompReach = 0 THEN "INACTIVE"
    ELSE IF ch.santoorReach = 0 /\ ch.maxCompReach >= 20
            /\ ch.channelShare >= 10 THEN "OPPORTUNITY"
    ELSE IF ch.santoorReach = 0 /\ ch.maxCompReach > 0 THEN "INACTIVE"
    ELSE IF ch.santoorReach > 0 /\ ch.maxCompReach = 0 THEN "MONOPOLY"
    ELSE IF ch.indexVsCompetition > 150 THEN "DOMINANT"
    ELSE IF ch.indexVsCompetition > 100 THEN "LEADING"
    ELSE IF ch.indexVsCompetition > 80 THEN "CLOSE"
    ELSE IF ch.indexVsCompetition > 50 THEN "BEHIND"
    ELSE "CRITICAL"

calculateStatus(ch) ==
    IF ch.santoorReach = 0 /\ ch.maxCompReach = 0 THEN "INACTIVE"
    ELSE IF ch.santoorReach = 0 /\ ch.maxCompReach >= 20
            /\ ch.channelShare >= 10 THEN "OPPORTUNITY"
    ELSE IF ch.santoorReach = 0 /\ ch.maxCompReach > 0 THEN "INACTIVE"
    ELSE IF ch.santoorReach > 0 /\ ch.maxCompReach = 0 THEN "MONOPOLY"
    ELSE IF ch.indexVsCompetition >= 150 THEN "DOMINANT"
    ELSE IF ch.indexVsCompetition >= 100 THEN "LEADING"
    ELSE IF ch.indexVsCompetition >= 80 THEN "CLOSE"
    ELSE IF ch.indexVsCompetition >= 50 THEN "BEHIND"
    ELSE "CRITICAL"

----------------------------------------------------------------------------
(* getProtectedChannels *)

\* Variant: the filter keeps the channels of reach zero.
RECURSIVE withSantoorInclusive(_)
withSantoorInclusive(chs) ==
    IF chs = <<>> THEN <<>>
    ELSE IF Head(chs).santoorReach >= 0
         THEN <<Head(chs)>> \o withSantoorInclusive(Tail(chs))
         ELSE withSantoorInclusive(Tail(chs))

\* channels.filter(ch => ch.santoorReach > 0)
RECURSIVE withSantoor(_)
withSantoor(chs) ==
    IF chs = <<>> THEN <<>>
    ELSE IF Head(chs).santoorReach > 0
         THEN <<Head(chs)>> \o withSantoor(Tail(chs))
         ELSE withSantoor(Tail(chs))

\* Variant: records of equal reach come out in reverse input order.
RECURSIVE insertByReachUnstable(_, _)
insertByReachUnstable(s, e) ==
    IF s = <<>> THEN <<e>>
    ELSE IF Head(s).santoorReach > e.santoorReach
         THEN <<Head(s)>> \o insertByReachUnstable(Tail(s), e)
         ELSE <<e>> \o s

\* One step of a stable insertion: e goes after every record whose reach
\* is at least its own (the comparator b.santoorReach - a.santoorReach
\* keeps equal records in input order).
RECURSIVE insertByReach(_, _)
insertByReach(s, e) ==
    IF s = <<>> THEN <<e>>
    ELSE IF Head(s).santoorReach >= e.santoorReach
         THEN <<Head(s)>> \o insertByReach(Tail(s), e)
         ELSE <<e>> \o s

\* Variant: the filtered records are ranked in input order, without a sort.
sortByReachDescUnsorted(chs) == chs

\* [...withSantoor].sort((a, b) => b.santoorReach - a.santoorReach)
RECURSIVE sortByReachDesc(_)
sortByReachDesc(chs) ==
    IF chs = <<>> THEN <<>>
    ELSE insertByReach(sortByReachDesc(SubSeq(chs, 1, Len(chs) - 1)),
                       chs[Len(chs)])

\* The pairs <<n, threshold>> with n <= 60 and threshold in 0..100 whose
\* double-precision product n * (threshold / 100) lies above the whole
\* number n * threshold / 100: 25 * (28 / 100) is 7.000000000000001 and
\* 25 * (56 / 100) is 14.000000000000002.
RoundedAbove ==
    {<<25, 28>>, <<25, 56>>, <<50, 14>>, <<50, 28>>, <<50, 56>>}

\* Math.ceil(n * (threshold / 100)), in double precision
cutoffOf(n, thr) ==
    (n * thr + 99) \div 100 + (IF <<n, thr>> \in RoundedAbove THEN 1 ELSE 0)

Min(a, b) == IF a < b THEN a ELSE b

\* sorted.slice(0, cutoff).map(ch => ch.channel)
getProtectedChannels(chs, thr) ==
    LET sorted == sortByReachDesc(withSantoor(chs))
        cutoff == cutoffOf(Len(sorted), thr)
    IN  [i \in 1..Min(cutoff, Len(sorted)) |-> sorted[i].channel]

\* Variant: the ranking sorts the argument array itself.
channelsAfterRankingInPlace(chs) == sortByReachDesc(chs)

\* The argument array after getProtectedChannels: filter builds a new array
\* and sort works on a spread copy of it, so the argument keeps its records
\* and their order.
channelsAfterRanking(chs) == chs

\* protectedChannels.includes(name)
includes(list, name) == \E i \in 1..Len(list) : list[i] = name

----------------------------------------------------------------------------
(* runOptimization *)

\* Variant: the third band shares the cutoff of the second.
gapThresholdTwoBands(int) == IF int <= 10 THEN -30 ELSE -20

\* Variant: the bands are in reverse, the cutoff tightening with intensity.
gapThresholdInverted(int) ==
    IF int <= 10 THEN -10 ELSE IF int <= 20 THEN -20 ELSE -30

\* Variant: the band limits are read as exclusive.
gapThresholdStrict(int) ==
    IF int < 10 THEN -30 ELSE IF int < 20 THEN -20 ELSE -10

gapThreshold(int) == IF int <= 10 THEN -30 ELSE IF int <= 20 THEN -20 ELSE -10

\* Variant: an intensity above the slider range is sent back to the first band.
indexThresholdClamped(int) ==
    IF int <= 10 \/ int > 30 THEN 70 ELSE IF int <= 20 THEN 80 ELSE 90

indexThreshold(int) == IF int <= 10 THEN 70 ELSE IF int <= 20 THEN 80 ELSE 90

\* Variant: the skip looks at the index in place of the competitor reach.
isSkippedByIndex(ch) == ch.santoorReach = 0 /\ ch.indexVsCompetition = 0

\* Skip completely inactive channels.
isSkipped(ch) == ch.santoorReach = 0 /\ ch.maxCompReach = 0

isOpportunity(ch) ==
    ch.santoorReach = 0 /\ ch.maxCompReach >= 20 /\ ch.channelShare >= 10

\* Variant: the priority limits are read as inclusive.
addPriorityInclusive(ch) ==
    IF ch.maxCompReach >= 50 THEN "HIGH"
    ELSE IF ch.maxCompReach >= 30 THEN "MEDIUM" ELSE "LOW"

addPriority(ch) ==
    IF ch.maxCompReach > 50 THEN "HIGH"
    ELSE IF ch.maxCompReach > 30 THEN "MEDIUM" ELSE "LOW"

isUnderperforming(ch, int) ==
    ch.santoorReach > 0 /\ ch.gap < gapThreshold(int)
    /\ ch.indexVsCompetition < indexThreshold(int)

increasePriority(ch) ==
    IF ch.gap < -50 THEN "HIGH" ELSE IF ch.gap < -20 THEN "MEDIUM" ELSE "LOW"

\* Variant: an index of exactly 100 does not count as leading.
isMaintainedStrict(ch, isProtected) ==
    isProtected \/ ch.indexVsCompetition > 100

isMaintained(ch, isProtected) == isProtected \/ ch.indexVsCompetition >= 100

isLowReach(ch, isProtected) ==
    ~isProtected /\ ch.santoorReach > 0 /\ ch.santoorReach < 15
    /\ ch.indexVsCompetition > 120

OptimizationResult(c, rec, pri, why) ==
    [channel |-> c, recommendation |-> rec, priority |-> pri, reason |-> why]

\* Variant: the entry is stored under its recommendation.
MapSetByRecommendation(map, key, value) ==
    [k \in DOMAIN map \cup {value.recommendation} |->
        IF k = value.recommendation THEN value ELSE map[k]]

\* results.set(key, value)
MapSet(map, key, value) ==
    [k \in DOMAIN map \cup {key} |-> IF k = key THEN value ELSE map[k]]

\* Variant: the default branch tests the competitor reach.
ruleDefaultByCompetitor(ch, isProtected, int) ==
    IF isSkipped(ch) THEN "SKIP"
    ELSE IF isOpportunity(ch) THEN "ADD"
    ELSE IF isUnderperforming(ch, int) THEN "INCREASE"
    ELSE IF isMaintained(ch, isProtected) THEN "MAINTAIN"
    ELSE IF isLowReach(ch, isProtected) THEN "DECREASE"
    ELSE IF ch.maxCompReach > 0 THEN "DEFAULT"
    ELSE "NONE"

\* Variant: the low-reach branch comes before the protected-or-leading
\* branch and does not look at the protected set.
ruleDecreaseFirst(ch, isProtected, int) ==
    IF isSkipped(ch) THEN "SKIP"
    ELSE IF isOpportunity(ch) THEN "ADD"
    ELSE IF isUnderperforming(ch, int) THEN "INCREASE"
    ELSE IF isLowReach(ch, FALSE) THEN "DECREASE"
    ELSE IF isMaintained(ch, isProtected) THEN "MAINTAIN"
    ELSE IF ch.santoorReach > 0 THEN "DEFAULT"
    ELSE "NONE"

\* Variant: the protected-or-leading branch comes before the opportunity
\* branch.
ruleMaintainFirst(ch, isProtected, int) ==
    IF isSkipped(ch) THEN "SKIP"
    ELSE IF isMaintained(ch, isProtected) THEN "MAINTAIN"
    ELSE IF isOpportunity(ch) THEN "ADD"
    ELSE IF isUnderperforming(ch, int) THEN "INCREASE"
    ELSE IF isLowReach(ch, isProtected) THEN "DECREASE"
    ELSE IF ch.santoorReach > 0 THEN "DEFAULT"
    ELSE "NONE"

\* Variant: a protected channel is maintained before the underperformance
\* test is made.
ruleProtectedFirst(ch, isProtected, int) ==
    IF isSkipped(ch) THEN "SKIP"
    ELSE IF isOpportunity(ch) THEN "ADD"
    ELSE IF isProtected THEN "MAINTAIN"
    ELSE IF isUnderperforming(ch, int) THEN "INCREASE"
    ELSE IF isMaintained(ch, isProtected) THEN "MAINTAIN"
    ELSE IF isLowReach(ch, isProtected) THEN "DECREASE"
    ELSE IF ch.santoorReach > 0 THEN "DEFAULT"
    ELSE "NONE"

\* The if-chain of the loop body: the first branch whose condition holds.
rule(ch, isProtected, int) ==
    IF isSkipped(ch) THEN "SKIP"
    ELSE IF isOpportunity(ch) THEN "ADD"
    ELSE IF isUnderperforming(ch, int) THEN "INCREASE"
    ELSE IF isMaintained(ch, isProtected) THEN "MAINTAIN"
    ELSE IF isLowReach(ch, isProtected) THEN "DECREASE"
    ELSE IF ch.santoorReach > 0 THEN "DEFAULT"
    ELSE "NONE"

\* The entry that the branch taken writes with results.set.
entry(ch, branch, isProtected, thr) ==
    CASE branch = "ADD" ->
            OptimizationResult(ch.channel, "ADD", addPriority(ch),
                "Competitor at " \o toFixed1(ch.maxCompReach)
                \o "%, Share " \o toFixed1(ch.channelShare) \o "%")
      [] branch = "INCREASE" ->
            OptimizationResult(ch.channel, "INCREASE", increasePriority(ch),
                "Gap of " \o toFixed1(ch.gap) \o " pts, Index "
                \o toFixed0(ch.indexVsCompetition))
      [] branch = "MAINTAIN" ->
            OptimizationResult(ch.channel, "MAINTAIN", "LOW",
                IF isProtected
                THEN "Top " \o NumberToString(thr) \o "% - protected"
                ELSE "Leading competition")
      [] branch = "DECREASE" ->
            OptimizationResult(ch.channel, "DECREASE", "LOW",
                "Low reach (" \o toFixed1(ch.santoorReach)
                \o "%), reallocate budget")
      [] branch = "DEFAULT" ->
            OptimizationResult(ch.channel, "MAINTAIN", "LOW",
                "Stable performance")

\* The body of the loop for one record: the map after the record.
evaluate(map, ch, protectedChannels, int, thr) ==
    LET isProtected == includes(protectedChannels, ch.channel)
        branch == rule(ch, isProtected, int)
    IN  IF branch \in {"SKIP", "NONE"} THEN map
        ELSE MapSet(map, ch.channel, entry(ch, branch, isProtected, thr))

\* for (const ch of channels) { ... }
RECURSIVE optimizeLoop(_, _, _, _, _)
optimizeLoop(map, chs, protectedChannels, int, thr) ==
    IF chs = <<>> THEN map
    ELSE optimizeLoop(evaluate(map, Head(chs), protectedChannels, int, thr),
                      Tail(chs), protectedChannels, int, thr)

runOptimization(chs, int, thr) ==
    optimizeLoop(<<>>, chs, getProtectedChannels(chs, thr), int, thr)

----------------------------------------------------------------------------
(* filterRelevantChannels *)

\* santoorReach > 0.5 || maxCompReach > 0.5 || channelShare > 0.1
isRelevant(ch) ==
    ch.santoorReach > 5 \/ ch.maxCompReach > 5 \/ ch.channelShare > 1

filterRelevantChannels(chs) == SelectSeq(chs, isRelevant)

----------------------------------------------------------------------------
(* The App component: its data *)

\* A record of the channel table: a ChannelRecord with its genre.
TableRecord(c, gn, s, m, g, sh, ix) ==
    [channel |-> c, genre |-> gn, santoorReach |-> s, maxCompReach |-> m,
     gap |-> g, channelShare |-> sh, indexVsCompetition |-> ix]

MarketData(scrList, data) == [scrs |-> scrList, channelData |-> data]

\* A data file of the three markets.  Maharashtra lists its Overall SCR
\* first, UP lists it second and has no channel data for UP Urban,
\* Karnataka has no Overall SCR.
SampleData ==
    [metadata |-> [markets |-> <<"UP", "Maharashtra", "Karnataka">>],
     markets |->
        [m \in {"UP", "Maharashtra", "Karnataka"} |->
            CASE m = "Maharashtra" ->
                    MarketData(<<"Maharashtra Overall", "Maharashtra Urban">>,
                        [s \in {"Maharashtra Overall", "Maharashtra Urban"} |->
                            IF s = "Maharashtra Overall"
                            THEN <<TableRecord("A", "GEC", 20, 20, -10, 10, 95),
                                   TableRecord("B", "News", 20, 30, -25, 10, 75),
                                   TableRecord("c", "GEC", 0, 30, -30, 10, 0)>>
                            ELSE <<TableRecord("A", "GEC", 10, 20, -10, 10, 95),
                                   TableRecord("B", "News", 3, 3, 0, 1, 100)>>])
              [] m = "UP" ->
                    MarketData(<<"UP Urban", "UP Overall">>,
                        [s \in {"UP Overall"} |->
                            <<TableRecord("A", "News", 10, 20, -60, 10, 60)>>])
              [] m = "Karnataka" ->
                    MarketData(<<"Bangalore">>,
                        [s \in {"Bangalore"} |->
                            <<TableRecord("B", "GEC", 12, 20, -10, 10, 121)>>])]]

\* The data of a session in which the App is not mounted.
NoData == [metadata |-> [markets |-> <<>>], markets |-> <<>>]

\* Stops of the intensity slider (min 5, max 30) and of the threshold
\* slider (min 50, max 90, step 5).
IntensityStops == {10, 15, 21}

ThresholdStops == {50, 70}

\* Texts typed into the search box.
SearchTexts == {"", "a"}

\* Column headers that the user clicks.
ClickedHeaders == {"channel", "santoorReach", "comp1", "rec"}

----------------------------------------------------------------------------
(* The App component: state, derived values and effects *)

\* The values that useState and useRef start from (lines 57-68), with the
\* memoized displayChannels not computed yet.  pending holds the state
\* updates that effects have asked for and no render has applied yet,
\* pendingEffects the effects of the last commit that have not run yet,
\* rerendered tells that a render after the first one has happened.
InitialState ==
    [market |-> "Maharashtra", scr |-> "Maharashtra Overall",
     intensity |-> 15, threshold |-> 70, isOptimized |-> FALSE,
     results |-> <<>>, showAll |-> FALSE, genre |-> "All", search |-> "",
     sortCol |-> "santoorReach", sortDir |-> "desc",
     prevOptimizedRef |-> FALSE, displayChannels |-> <<>>,
     pending |-> <<>>, pendingEffects |-> {}, rerendered |-> FALSE]

\* The four effects of the component, in source order: lines 76, 77-81,
\* 95-100 and 102-104.
AllEffects == {"reset", "selectSCR", "reoptimize", "trackOptimized"}

\* santoorData.markets[market] is defined
hasMarketData(m) == m \in DOMAIN santoorData.markets

\* marketData?.scrs || []
scrsOf(m) == IF hasMarketData(m) THEN santoorData.markets[m].scrs ELSE <<>>

\* marketData?.channelData[scr] is defined
hasChannelData(m, s) ==
    hasMarketData(m) /\ s \in DOMAIN santoorData.markets[m].channelData

\* marketData?.channelData[scr] || []
rawChannelsOf(m, s) ==
    IF hasChannelData(m, s) THEN santoorData.markets[m].channelData[s]
    ELSE <<>>

\* ['All', ...new Set(rawChannels.map(c => c.genre))]
genresOf(raw) == {"All"} \cup {raw[i].genre : i \in 1..Len(raw)}

\* String.prototype.toLowerCase on the texts of the model
toLowerCase(s) ==
    CASE s = "A" -> "a"
      [] s = "B" -> "b"
      [] OTHER -> s

\* String.prototype.includes for a text and a search text of at most one
\* character: the empty text is in every text, a character is in the
\* one-character text equal to it.
includesText(text, part) == part = "" \/ text = part

\* The place of a text among the texts of the model in the order of the
\* relational operators on strings (UTF-16 code units: capitals first).
textOrder(s) ==
    CASE s = "A" -> 1
      [] s = "B" -> 2
      [] s = "GEC" -> 3
      [] s = "News" -> 4
      [] s = "a" -> 5
      [] s = "b" -> 6
      [] s = "c" -> 7

\* (a as any)[sortCol] ?? 0: no record of the model carries atcIndex.
sortValue(ch, col) ==
    CASE col = "channel" -> textOrder(ch.channel)
      [] col = "genre" -> textOrder(ch.genre)
      [] col = "santoorReach" -> ch.santoorReach
      [] col = "gap" -> ch.gap
      [] col = "indexVsCompetition" -> ch.indexVsCompetition
      [] OTHER -> 0

\* The comparator of the table sort (line 91): it never answers 0.
compareRows(a, b, col, dir) ==
    LET aV == sortValue(a, col)
        bV == sortValue(b, col)
    IN  IF dir = "asc" THEN (IF aV > bV THEN 1 ELSE -1)
        ELSE (IF aV < bV THEN 1 ELSE -1)

PermutationsOf(list) ==
    LET n == Len(list)
        orders == {f \in [1..n -> 1..n] :
                      \A i, j \in 1..n : i # j => f[i] # f[j]}
    IN  {[i \in 1..n |-> list[f[i]]] : f \in orders}

\* [...filtered].sort(comparator).  The comparator answers -1 both ways
\* for rows of equal value, so it is not a consistent comparator and the
\* order of such rows is left to the engine: every arrangement in which no
\* row stands before a row that the comparator puts strictly first.
sortOutcomes(list, col, dir) ==
    {p \in PermutationsOf(list) :
        \A i, j \in 1..Len(p) :
            i < j => compareRows(p[i], p[j], col, dir) < 0}

\* The list that the displayChannels memo filters before sorting it.
filteredChannels(st) ==
    LET raw == rawChannelsOf(st.market, st.scr)
        relevant == IF st.showAll THEN raw ELSE filterRelevantChannels(raw)
        byGenre(c) == c.genre = st.genre
        ofGenre == IF st.genre # "All" THEN SelectSeq(relevant, byGenre)
                   ELSE relevant
        bySearch(c) ==
            includesText(toLowerCase(c.channel), toLowerCase(st.search))
    IN  IF st.search # "" THEN SelectSeq(ofGenre, bySearch) ELSE ofGenre

\* The displayChannels memo recomputes when one of rawChannels, showAll,
\* genre, search, sortCol, sortDir changed from the render before;
\* rawChannels is the array of the data file for <<market, scr>>, or a
\* fresh [] on every render when the data file has none.
memoChanged(prev, next) ==
    \/ prev.market # next.market \/ prev.scr # next.scr
    \/ ~hasChannelData(next.market, next.scr)
    \/ prev.showAll # next.showAll \/ prev.genre # next.genre
    \/ prev.search # next.search
    \/ prev.sortCol # next.sortCol \/ prev.sortDir # next.sortDir

\* The values displayChannels can take in the render of next that follows
\* the render of prev.
displaysFor(prev, next) ==
    IF memoChanged(prev, next)
    THEN sortOutcomes(filteredChannels(next), next.sortCol, next.sortDir)
    ELSE {prev.displayChannels}

\* Variant: a market without an Overall SCR keeps the SCR selected before.
defaultSCROverallOnly(m, scrList, current) ==
    IF includes(scrList, m \o " Overall") THEN m \o " Overall" ELSE current

\* The SCR after the effect of lines 77-81.
defaultSCR(m, scrList, current) ==
    IF includes(scrList, m \o " Overall") THEN m \o " Overall"
    ELSE IF Len(scrList) > 0 THEN scrList[1]
    ELSE current

\* The effects that a commit of next after the render of prev leaves to
\* run: those with a changed dependency (lines 76, 81, 100, 104).  scrs is
\* a fresh [] on every render when the data file has no such market.
changedEffects(prev, next) ==
    (IF prev.market # next.market \/ prev.scr # next.scr
     THEN {"reset"} ELSE {})
    \cup (IF prev.market # next.market \/ ~hasMarketData(next.market)
          THEN {"selectSCR"} ELSE {})
    \cup (IF \/ prev.intensity # next.intensity
             \/ prev.threshold # next.threshold
             \/ memoChanged(prev, next)
          THEN {"reoptimize"} ELSE {})
    \cup (IF prev.isOptimized # next.isOptimized
          THEN {"trackOptimized"} ELSE {})

\* A state setter called with value: the update joins the updates waiting
\* for a render; of two updates of one state the later one decides.
enqueue(queue, field, value) ==
    [f \in DOMAIN queue \cup {field} |->
        IF f = field THEN value ELSE queue[f]]

\* The waiting updates without those of the given states.
without(queue, fields) == [f \in DOMAIN queue \ fields |-> queue[f]]

\* Object.is of the value that a setter is given and the value of the
\* state: every setResults call is given a new Map (lines 76, 98, 136), and
\* a new Map is no Map that the state holds, whatever its entries.
sameValue(field, a, b) == field # "results" /\ a = b

\* The waiting updates that a render of st has left to apply: an update of
\* scr or isOptimized to the value that st shows changes nothing, an update
\* of results always asks for a render.
outstanding(queue, st) ==
    without(queue, {f \in DOMAIN queue : sameValue(f, queue[f], st[f])})

\* A render applies the updates to the state.
applyUpdates(st, updates) ==
    [f \in DOMAIN st |-> IF f \in DOMAIN updates THEN updates[f] ELSE st[f]]

\* The effects named in flagged run in source order with the values of the
\* render st; their setters add to queue, and the ref is read by the third
\* effect before the fourth writes it.
runEffects(st, flagged, queue) ==
    LET q1 == IF "reset" \in flagged
              THEN enqueue(enqueue(queue, "isOptimized", FALSE),
                           "results", <<>>)
              ELSE queue
        q2 == IF "selectSCR" \in flagged /\ Len(scrsOf(st.market)) > 0
              THEN enqueue(q1, "scr",
                           defaultSCR(st.market, scrsOf(st.market),
                                      IF "scr" \in DOMAIN q1 THEN q1["scr"]
                                      ELSE st.scr))
              ELSE q1
        q3 == IF /\ "reoptimize" \in flagged
                 /\ st.prevOptimizedRef
                 /\ Len(st.displayChannels) > 0
              THEN enqueue(q2, "results",
                           runOptimization(st.displayChannels, st.intensity,
                                           st.threshold))
              ELSE q2
    IN  [pending |-> q3,
         prevOptimizedRef |-> IF "trackOptimized" \in flagged
                              THEN st.isOptimized
                              ELSE st.prevOptimizedRef]

\* The first commit of the App: the first render computes displayChannels
\* and leaves every effect to run.
mount ==
    {[InitialState EXCEPT !.displayChannels = d, !.pendingEffects = AllEffects] :
        d \in sortOutcomes(filteredChannels(InitialState),
                           InitialState.sortCol, InitialState.sortDir)}

\* The task of a user event whose handler calls the setters of updates
\* with the values of the last commit st.  Effects that still wait run
\* first, with the values of st; the render that follows applies the
\* handler's updates only, an update asked for by an effect waits for a
\* later render, and where both set one state the one asked for later
\* decides it in that later render.  The effects of the commit run within
\* the task.  A handler that calls no setter leaves everything as it is,
\* and so does one that, before any later render and with no update
\* waiting, gives every setter the value its state has: the update is
\* dropped, nothing renders and the waiting effects keep waiting.
handleEvent(st, updates) ==
    IF DOMAIN updates = {} THEN {st}
    ELSE IF /\ ~st.rerendered
            /\ DOMAIN st.pending = {}
            /\ \A f \in DOMAIN updates : sameValue(f, updates[f], st[f])
    THEN {st}
    ELSE
      LET before == runEffects(st, st.pendingEffects,
                               without(st.pending, DOMAIN updates))
          shown == applyUpdates(st, updates)
      IN  {LET next == [shown EXCEPT
                            !.displayChannels = d,
                            !.prevOptimizedRef = before.prevOptimizedRef]
               after == runEffects(next, changedEffects(st, next),
                                   before.pending)
           IN  [next EXCEPT
                   !.pending = outstanding(after.pending, next),
                   !.prevOptimizedRef = after.prevOptimizedRef,
                   !.pendingEffects = {},
                   !.rerendered = TRUE] :
           d \in displaysFor(st, shown)}

\* The task that renders the updates asked for by effects: it commits the
\* new state and leaves the effects with a changed dependency to run in a
\* task of their own.
renderPending(st) ==
    LET shown == applyUpdates(st, st.pending)
    IN  {[shown EXCEPT !.displayChannels = d,
                       !.pending = <<>>,
                       !.pendingEffects = changedEffects(st, shown),
                       !.rerendered = TRUE] :
         d \in displaysFor(st, shown)}

\* The task that runs the waiting effects of the last commit.
flushEffects(st) ==
    LET after == runEffects(st, st.pendingEffects, st.pending)
    IN  [st EXCEPT !.pending = outstanding(after.pending, st),
                   !.prevOptimizedRef = after.prevOptimizedRef,
                   !.pendingEffects = {}]

\* handleSort (lines 140-147): the setters it calls
handleSort(st, col) ==
    IF st.sortCol = col
    THEN [sortDir |-> IF st.sortDir = "asc" THEN "desc" ELSE "asc"]
    ELSE [sortCol |-> col, sortDir |-> "desc"]

\* The keys of the column headers (lines 466-479).
headerKeys(st) ==
    {"channel", "genre", "santoorReach", "comp1", "comp2"}
    \cup (IF st.market = "Karnataka" THEN {"atcIndex"} ELSE {})
    \cup {"gap", "indexVsCompetition", "status"}
    \cup (IF st.isOptimized THEN {"rec", "reason"} ELSE {})

\* onClick of a header (line 482)
clickHeader(st, col) ==
    IF col \notin {"status", "rec", "reason", "comp1", "comp2"}
    THEN handleSort(st, col)
    ELSE <<>>

\* handleOpt (lines 134-138): the setters it calls
handleOpt(st) ==
    [results |->
        runOptimization(st.displayChannels, st.intensity, st.threshold),
     isOptimized |-> TRUE]

----------------------------------------------------------------------------
(* State machine: the inputs are fixed by Init, the actions are the calls *)

Init ==
    /\ channels \in RecordLists
    /\ intensity \in IntensityValues
    /\ threshold \in ThresholdValues
    /\ results = <<>>
    /\ statuses = <<>>
    /\ protectedList = <<>>
    /\ done = {}
    /\ santoorData = NoData
    /\ app = InitialState

\* runOptimization ranks the list through getProtectedChannels (line 93).
RunOptimization ==
    /\ results' = runOptimization(channels, intensity, threshold)
    /\ channels' = channelsAfterRanking(channels)
    /\ done' = done \cup {"runOptimization"}
    /\ UNCHANGED <<intensity, threshold, statuses, protectedList>>
    /\ UNCHANGED <<santoorData, app>>

GetProtectedChannels ==
    /\ protectedList' = getProtectedChannels(channels, threshold)
    /\ channels' = channelsAfterRanking(channels)
    /\ done' = done \cup {"getProtectedChannels"}
    /\ UNCHANGED <<intensity, threshold, results, statuses>>
    /\ UNCHANGED <<santoorData, app>>

\* The status column: calculateStatus applied to each record of the list.
CalculateStatus ==
    /\ statuses' = [i \in 1..Len(channels) |-> calculateStatus(channels[i])]
    /\ done' = done \cup {"calculateStatus"}
    /\ UNCHANGED <<channels, intensity, threshold, results, protectedList>>
    /\ UNCHANGED <<santoorData, app>>

Next == RunOptimization \/ GetProtectedChannels \/ CalculateStatus

Spec == Init /\ [][Next]_vars

\* The same calls on the long lists, at the default intensity of the App.
InitRank ==
    /\ channels \in RankLists
    /\ intensity = 15
    /\ threshold \in RankThresholds
    /\ results = <<>>
    /\ statuses = <<>>
    /\ protectedList = <<>>
    /\ done = {}
    /\ santoorData = NoData
    /\ app = InitialState

SpecRank == InitRank /\ [][Next]_vars

----------------------------------------------------------------------------
(* The App component: the tasks of the page.  The task of a user event    *)
(* renders the handler's updates and runs the effects of that commit; an  *)
(* update that an effect asks for is rendered by a later task, and the    *)
(* effects of that later commit run in a task after it.  Between two      *)
(* tasks the page shows the last commit and takes the next user event.    *)

engineVars ==
    <<channels, intensity, threshold, results, statuses, protectedList, done>>

\* The engine variables while the App is the caller of the engine.
EngineIdle ==
    /\ channels = <<>>
    /\ intensity = 15
    /\ threshold = 70
    /\ results = <<>>
    /\ statuses = <<>>
    /\ protectedList = <<>>
    /\ done = {}

\* The App after its first commit on the sample data file.
InitApp ==
    /\ EngineIdle
    /\ santoorData = SampleData
    /\ app \in mount

\* The market select (line 205); onChange tells of another option only.
SelectMarket ==
    /\ \E i \in 1..Len(santoorData.metadata.markets) :
          /\ santoorData.metadata.markets[i] # app.market
          /\ app' \in handleEvent(app,
                         [market |-> santoorData.metadata.markets[i]])
    /\ UNCHANGED <<engineVars, santoorData>>

\* An SCR button of the market shown (lines 213-216)
ClickSCR ==
    /\ \E i \in 1..Len(scrsOf(app.market)) :
          app' \in handleEvent(app, [scr |-> scrsOf(app.market)[i]])
    /\ UNCHANGED <<engineVars, santoorData>>

\* The intensity slider (line 266)
SetIntensity ==
    /\ \E v \in IntensityStops \ {app.intensity} :
          app' \in handleEvent(app, [intensity |-> v])
    /\ UNCHANGED <<engineVars, santoorData>>

\* The threshold slider (line 304)
SetThreshold ==
    /\ \E v \in ThresholdStops \ {app.threshold} :
          app' \in handleEvent(app, [threshold |-> v])
    /\ UNCHANGED <<engineVars, santoorData>>

\* The genre select, which offers the genres of rawChannels (line 427)
SetGenre ==
    /\ \E g \in genresOf(rawChannelsOf(app.market, app.scr)) \ {app.genre} :
          app' \in handleEvent(app, [genre |-> g])
    /\ UNCHANGED <<engineVars, santoorData>>

\* The search box (line 433)
SetSearch ==
    /\ \E text \in SearchTexts \ {app.search} :
          app' \in handleEvent(app, [search |-> text])
    /\ UNCHANGED <<engineVars, santoorData>>

\* The show-all checkbox (line 451)
SetShowAll ==
    /\ app' \in handleEvent(app, [showAll |-> ~app.showAll])
    /\ UNCHANGED <<engineVars, santoorData>>

\* A click on a column header (line 482)
ClickHeader ==
    /\ \E col \in headerKeys(app) \cap ClickedHeaders :
          app' \in handleEvent(app, clickHeader(app, col))
    /\ UNCHANGED <<engineVars, santoorData>>

\* The Run button (line 323)
HandleOpt ==
    /\ app' \in handleEvent(app, handleOpt(app))
    /\ UNCHANGED <<engineVars, santoorData>>

\* The render of the updates that effects asked for; effects that wait
\* run before a render starts.
RenderPending ==
    /\ app.pendingEffects = {}
    /\ DOMAIN app.pending # {}
    /\ app' \in renderPending(app)
    /\ UNCHANGED <<engineVars, santoorData>>

\* The effects of a commit that ran none of them in its own task.
FlushEffects ==
    /\ app.pendingEffects # {}
    /\ app' = flushEffects(app)
    /\ UNCHANGED <<engineVars, santoorData>>

NextApp ==
    \/ SelectMarket
    \/ ClickSCR
    \/ SetIntensity
    \/ SetThreshold
    \/ SetGenre
    \/ SetSearch
    \/ SetShowAll
    \/ ClickHeader
    \/ HandleOpt
    \/ RenderPending
    \/ FlushEffects

SpecApp == InitApp /\ [][NextApp]_vars

----------------------------------------------------------------------------
(* The App on one market with one SCR: the engine is called again and     *)
(* again on the same records while the user moves the sliders and sorts   *)
(* the table.                                                             *)

MaxRows == 2

\* Records of channels "a", "b", "c": equal and different reach, gap and
\* index on both sides of each intensity cutoff, absent Santoor, a second
\* record per name.
TuningRecords ==
    {TableRecord("a", "GEC", 20, 20, -10, 10, 95),
     TableRecord("b", "GEC", 20, 30, -25, 10, 75),
     TableRecord("c", "GEC", 10, 20, -60, 10, 60),
     TableRecord("c", "GEC", 10, 20, -15, 10, 85),
     TableRecord("a", "GEC", 0, 30, -30, 10, 0),
     TableRecord("b", "GEC", 10, 20, -10, 10, 95)}

TuningLists == UNION {SeqsOfLen(TuningRecords, n) : n \in 0..MaxRows}

TuningData(list) ==
    [metadata |-> [markets |-> <<"Maharashtra">>],
     markets |->
        [m \in {"Maharashtra"} |->
            MarketData(<<"Maharashtra Overall">>,
                       [s \in {"Maharashtra Overall"} |-> list])]]

InitTuning ==
    /\ EngineIdle
    /\ santoorData \in {TuningData(list) : list \in TuningLists}
    /\ app \in mount

NextTuning ==
    \/ SetIntensity
    \/ SetThreshold
    \/ ClickHeader
    \/ HandleOpt
    \/ RenderPending
    \/ FlushEffects

SpecTuning == InitTuning /\ [][NextTuning]_vars

----------------------------------------------------------------------------
(* Vocabulary of the properties *)

Ran == "runOptimization" \in done

Rendered == "calculateStatus" \in done

Records == 1..Len(channels)

\* The channel name of record i occurs on no other record of the list.
Unique(i) ==
    \A j \in Records : j # i => channels[j].channel # channels[i].channel

\* No later record of the list carries the channel name of record i.
LastOfName(i) ==
    \A j \in Records : j > i => channels[j].channel # channels[i].channel

HasEntry(i) == channels[i].channel \in DOMAIN results

Given(i) == results[channels[i].channel]

IsGiven(i, rec, pri) ==
    /\ HasEntry(i)
    /\ Given(i).recommendation = rec
    /\ Given(i).priority = pri

InProtectedSet(i) ==
    includes(getProtectedChannels(channels, threshold), channels[i].channel)

BothZero(ch) == ch.santoorReach = 0 /\ ch.maxCompReach = 0

\* The ADD rule and the INCREASE rule as the specification words them.
MatchesAdd(ch) ==
    ch.santoorReach = 0 /\ ch.maxCompReach >= 20 /\ ch.channelShare >= 10

GapCutoff == IF intensity <= 10 THEN -30 ELSE IF intensity <= 20 THEN -20 ELSE -10

IndexCutoff == IF intensity <= 10 THEN 70 ELSE IF intensity <= 20 THEN 80 ELSE 90

MatchesIncrease(ch) ==
    ch.santoorReach > 0 /\ ch.gap < GapCutoff /\ ch.indexVsCompetition < IndexCutoff

----------------------------------------------------------------------------
(* Properties *)

\* C1: a record with santoorReach > 0, gap below the intensity cutoff and
\* indexVsCompetition below the intensity cutoff is given INCREASE, with
\* priority HIGH when gap < -5, MEDIUM when -5 <= gap < -2 and LOW otherwise;
\* a record that fails one of the three conditions is not given INCREASE.
C1_IncreaseRule ==
    Ran => \A i \in Records : Unique(i) =>
        LET ch == channels[i]
        IN  IF MatchesIncrease(ch)
            THEN IsGiven(i, "INCREASE",
                    IF ch.gap < -50 THEN "HIGH"
                    ELSE IF ch.gap < -20 THEN "MEDIUM" ELSE "LOW")
            ELSE ~(HasEntry(i) /\ Given(i).recommendation = "INCREASE")

\* A protected record at the highest intensity band is given INCREASE with
\* priority LOW for a gap of -1.5.
C1_Witness ==
    /\ Ran
    /\ \E i \in Records :
        /\ Unique(i) /\ InProtectedSet(i)
        /\ channels[i].gap = -15 /\ channels[i].indexVsCompetition = 80
        /\ intensity = 21
        /\ IsGiven(i, "INCREASE", "LOW")

\* C2: a record that is not protected, matches neither the ADD rule nor the
\* INCREASE rule and has 0 < santoorReach < 1.5 and indexVsCompetition > 120
\* is given DECREASE with priority LOW.
C2_DecreaseRule ==
    Ran => \A i \in Records : Unique(i) =>
        LET ch == channels[i]
        IN  (/\ ~InProtectedSet(i)
             /\ ~MatchesAdd(ch) /\ ~MatchesIncrease(ch)
             /\ ch.santoorReach > 0 /\ ch.santoorReach < 15
             /\ ch.indexVsCompetition > 120)
            => IsGiven(i, "DECREASE", "LOW")

\* C3: a record with santoorReach = 0 that fails the opportunity test
\* (maxCompReach < 2.0 or channelShare < 1.0) has no entry for its channel,
\* whatever its indexVsCompetition and gap.
C3_AbsentNoEntry ==
    Ran => \A i \in Records : Unique(i) =>
        LET ch == channels[i]
        IN  (ch.santoorReach = 0
             /\ (ch.maxCompReach < 20 \/ ch.channelShare < 10))
            => ~HasEntry(i)

\* C4 as stated: for every record list, also one in which a channel name
\* occurs on more than one record, the map has no entry keyed by the channel
\* of a record with santoorReach = 0 and maxCompReach = 0.
C4_Original ==
    Ran => \A i \in Records : BothZero(channels[i]) => ~HasEntry(i)

\* C4 amended: the map has no entry keyed by a channel whose records all
\* have santoorReach = 0 and maxCompReach = 0; a record of the same channel
\* name with a non-zero reach may still put an entry under that name.
C4_InactiveNoEntry ==
    Ran => \A i \in Records :
        (\A j \in Records :
            channels[j].channel = channels[i].channel => BothZero(channels[j]))
        => ~HasEntry(i)

\* A completely inactive record with a leading index sits in a list whose
\* other channel has an entry, and has none itself.
C4_Witness ==
    /\ Ran
    /\ \E i \in Records :
        /\ BothZero(channels[i]) /\ Unique(i)
        /\ channels[i].indexVsCompetition = 100
        /\ ~HasEntry(i)
    /\ DOMAIN results # {}

\* C5: for threshold 70, a protected record with indexVsCompetition = 40 is
\* given MAINTAIN with reason 'Top 70% - protected', whatever its gap and
\* the intensity.
C5_ProtectedMaintain ==
    (Ran /\ threshold = 70) => \A i \in Records :
        (Unique(i) /\ InProtectedSet(i)
         /\ channels[i].indexVsCompetition = 40)
        => /\ HasEntry(i)
           /\ Given(i).recommendation = "MAINTAIN"
           /\ Given(i).reason = "Top 70% - protected"

\* C6 as stated: a record with santoorReach = 0, maxCompReach = 3 and
\* channelShare = 2 has status OPPORTUNITY and is given ADD with priority
\* MEDIUM, for every intensity and threshold.
C6_Original ==
    (Ran /\ Rendered) => \A i \in Records : Unique(i) =>
        LET ch == channels[i]
        IN  (ch.santoorReach = 0 /\ ch.maxCompReach = 30 /\ ch.channelShare = 20)
            => statuses[i] = "OPPORTUNITY" /\ IsGiven(i, "ADD", "MEDIUM")

\* C6 amended: such a record has status OPPORTUNITY and is given ADD with
\* priority LOW (MEDIUM needs maxCompReach > 3), for every intensity and
\* threshold.
C6_ScenarioA ==
    (Ran /\ Rendered) => \A i \in Records : Unique(i) =>
        LET ch == channels[i]
        IN  (ch.santoorReach = 0 /\ ch.maxCompReach = 30 /\ ch.channelShare = 20)
            => statuses[i] = "OPPORTUNITY" /\ IsGiven(i, "ADD", "LOW")

C6_Witness ==
    /\ Ran /\ Rendered
    /\ \E i \in Records :
        /\ Unique(i)
        /\ channels[i].santoorReach = 0 /\ channels[i].maxCompReach = 30
        /\ channels[i].channelShare = 20
        /\ statuses[i] = "OPPORTUNITY"
        /\ Given(i).reason = "Competitor at 3.0%, Share 2.0%"

\* A record is given INCREASE exactly when it passes the cutoffs gc and ic.
IncreaseExactlyUnder(gc, ic) ==
    \A i \in Records : Unique(i) =>
        ((HasEntry(i) /\ Given(i).recommendation = "INCREASE")
         <=> (/\ channels[i].santoorReach > 0
              /\ channels[i].gap < gc
              /\ channels[i].indexVsCompetition < ic))

\* C7 as stated: for intensity outside [5, 30], below 5 as well as above 30,
\* the cutoffs in force are the most conservative pair, -3 and 70.
C7_Original ==
    (Ran /\ (intensity < 5 \/ intensity > 30)) => IncreaseExactlyUnder(-30, 70)

\* C7 amended: for intensity below 5 the cutoffs in force are the most
\* conservative pair, -3 and 70; for intensity above 30 they are the least
\* conservative pair, -1 and 90.
C7_OutOfRange ==
    /\ (Ran /\ intensity < 5) => IncreaseExactlyUnder(-30, 70)
    /\ (Ran /\ intensity > 30) => IncreaseExactlyUnder(-10, 90)

\* Above the range, a record that only the least conservative pair admits
\* is given INCREASE.
C7_Witness ==
    /\ Ran /\ intensity > 30
    /\ \E i \in Records :
        /\ Unique(i)
        /\ channels[i].gap = -15 /\ channels[i].indexVsCompetition = 80
        /\ HasEntry(i) /\ Given(i).recommendation = "INCREASE"

\* C8: no channel of getProtectedChannels(records, threshold) is given
\* DECREASE by runOptimization(records, intensity, threshold).
C8_ProtectedNotDecreased ==
    Ran => \A name \in DOMAIN results :
        includes(getProtectedChannels(channels, threshold), name)
        => results[name].recommendation # "DECREASE"

\* A protected channel of low reach and high index has been evaluated.
C8_Witness ==
    /\ Ran
    /\ \E i \in Records :
        /\ InProtectedSet(i) /\ LastOfName(i)
        /\ channels[i].santoorReach < 15 /\ channels[i].santoorReach > 0
        /\ channels[i].indexVsCompetition > 120
        /\ HasEntry(i)

\* C9: a record with santoorReach = 0, maxCompReach >= 2.0 and
\* channelShare >= 1.0 is given ADD, with priority HIGH when
\* maxCompReach > 5, MEDIUM when 3 < maxCompReach <= 5 and LOW otherwise,
\* whether or not its channel is protected and whatever its index.
C9_AddRule ==
    Ran => \A i \in Records : LastOfName(i) =>
        LET ch == channels[i]
        IN  MatchesAdd(ch)
            => IsGiven(i, "ADD",
                  IF ch.maxCompReach > 50 THEN "HIGH"
                  ELSE IF ch.maxCompReach > 30 THEN "MEDIUM" ELSE "LOW")

\* An opportunity record whose channel name is protected and whose index is
\* 100 is given ADD with priority MEDIUM.
C9_Witness ==
    /\ Ran
    /\ \E i \in Records :
        /\ LastOfName(i) /\ InProtectedSet(i)
        /\ channels[i].santoorReach = 0 /\ channels[i].maxCompReach = 50
        /\ channels[i].indexVsCompetition = 100
        /\ IsGiven(i, "ADD", "MEDIUM")

\* The MAINTAIN entry of the protected-or-leading rule for record i.
MaintainedAsClaimed(i) ==
    /\ IsGiven(i, "MAINTAIN", "LOW")
    /\ Given(i).reason =
          IF InProtectedSet(i)
          THEN "Top " \o NumberToString(threshold) \o "% - protected"
          ELSE "Leading competition"

\* C10 as stated: a record that matches neither the ADD rule nor the
\* INCREASE rule and is protected or has indexVsCompetition >= 100 is given
\* MAINTAIN with priority LOW and the reason of its case.
C10_Original ==
    Ran => \A i \in Records : Unique(i) =>
        LET ch == channels[i]
        IN  (/\ ~MatchesAdd(ch) /\ ~MatchesIncrease(ch)
             /\ (InProtectedSet(i) \/ ch.indexVsCompetition >= 100))
            => MaintainedAsClaimed(i)

\* C10 amended: the same, for a record that is not completely inactive
\* (not both santoorReach = 0 and maxCompReach = 0).
C10_MaintainRule ==
    Ran => \A i \in Records : Unique(i) =>
        LET ch == channels[i]
        IN  (/\ ~BothZero(ch)
             /\ ~MatchesAdd(ch) /\ ~MatchesIncrease(ch)
             /\ (InProtectedSet(i) \/ ch.indexVsCompetition >= 100))
            => MaintainedAsClaimed(i)

\* One list holds both cases: a protected channel and a leading one.
C10_Witness ==
    /\ Ran /\ Len(channels) = 2
    /\ \E i, j \in Records :
        /\ Unique(i) /\ Unique(j)
        /\ HasEntry(i) /\ Given(i).reason = "Top 50% - protected"
        /\ channels[j].indexVsCompetition = 100
        /\ HasEntry(j) /\ Given(j).reason = "Leading competition"

\* C11: a record with santoorReach > 0 that matches none of the ADD,
\* INCREASE, protected-or-leading and DECREASE rules is given MAINTAIN with
\* priority LOW and reason 'Stable performance'; every record with
\* santoorReach > 0 has an entry in the map.
C11_DefaultRule ==
    Ran =>
        /\ \A i \in Records : Unique(i) =>
            LET ch == channels[i]
            IN  (/\ ch.santoorReach > 0
                 /\ ~MatchesAdd(ch) /\ ~MatchesIncrease(ch)
                 /\ ~(InProtectedSet(i) \/ ch.indexVsCompetition >= 100)
                 /\ ~(/\ ~InProtectedSet(i) /\ ch.santoorReach < 15
                      /\ ch.indexVsCompetition > 120))
                => /\ IsGiven(i, "MAINTAIN", "LOW")
                   /\ Given(i).reason = "Stable performance"
        /\ \A i \in Records : channels[i].santoorReach > 0 => HasEntry(i)

\* An unprotected monopoly channel behind on index, at a gap the cutoff
\* lets pass, is given the default entry.
C11_Witness ==
    /\ Ran
    /\ \E i \in Records :
        /\ Unique(i) /\ ~InProtectedSet(i)
        /\ channels[i].santoorReach > 0 /\ channels[i].maxCompReach = 0
        /\ Given(i).reason = "Stable performance"

Statuses ==
    {"INACTIVE", "OPPORTUNITY", "MONOPOLY", "DOMINANT", "LEADING", "CLOSE",
     "BEHIND", "CRITICAL"}

IndexStatuses == {"DOMINANT", "LEADING", "CLOSE", "BEHIND", "CRITICAL"}

\* C12: calculateStatus gives every record exactly one of the eight
\* statuses: INACTIVE when both reaches are 0, OPPORTUNITY when Santoor is
\* absent and maxCompReach >= 2.0 and channelShare >= 1.0, INACTIVE for an
\* absent Santoor otherwise, MONOPOLY when Santoor is present and
\* maxCompReach = 0 whatever the index, and an index status only for the
\* remaining records.
C12_StatusTotal ==
    Rendered =>
        /\ Len(statuses) = Len(channels)
        /\ \A i \in Records :
            LET ch == channels[i]
                st == statuses[i]
            IN  /\ st \in Statuses
                /\ (ch.santoorReach = 0 /\ ch.maxCompReach = 0)
                   => st = "INACTIVE"
                /\ (ch.santoorReach = 0 /\ ch.maxCompReach >= 20
                    /\ ch.channelShare >= 10) => st = "OPPORTUNITY"
                /\ (ch.santoorReach = 0 /\ ch.maxCompReach > 0
                    /\ ~(ch.maxCompReach >= 20 /\ ch.channelShare >= 10))
                   => st = "INACTIVE"
                /\ (ch.santoorReach > 0 /\ ch.maxCompReach = 0)
                   => st = "MONOPOLY"
                /\ st \in IndexStatuses
                   <=> (ch.santoorReach > 0 /\ ch.maxCompReach > 0)

\* A channel without competitor is MONOPOLY at a dominant index.
C12_Witness ==
    /\ Rendered
    /\ \E i \in Records :
        /\ channels[i].santoorReach > 0 /\ channels[i].maxCompReach = 0
        /\ channels[i].indexVsCompetition = 150
        /\ statuses[i] = "MONOPOLY"

\* C13: with santoorReach > 0 and maxCompReach > 0 the status is DOMINANT
\* for index >= 150, LEADING for 100 <= index < 150, CLOSE for
\* 80 <= index < 100, BEHIND for 50 <= index < 80 and CRITICAL below 50.
C13_IndexBuckets ==
    Rendered => \A i \in Records :
        LET ch == channels[i]
            ix == ch.indexVsCompetition
        IN  (ch.santoorReach > 0 /\ ch.maxCompReach > 0) =>
            /\ (ix >= 150) => statuses[i] = "DOMINANT"
            /\ (100 <= ix /\ ix < 150) => statuses[i] = "LEADING"
            /\ (80 <= ix /\ ix < 100) => statuses[i] = "CLOSE"
            /\ (50 <= ix /\ ix < 80) => statuses[i] = "BEHIND"
            /\ (ix < 50) => statuses[i] = "CRITICAL"

\* A record whose index is exactly on the lowest limit is BEHIND.
C13_Witness ==
    /\ Rendered
    /\ \E i \in Records :
        /\ channels[i].santoorReach > 0 /\ channels[i].maxCompReach > 0
        /\ channels[i].indexVsCompetition = 50
        /\ statuses[i] = "BEHIND"

Ranked == "getProtectedChannels" \in done

\* The records on which Santoor is present.
Present == {i \in Records : channels[i].santoorReach > 0}

\* ceil(threshold / 100 * n) over the rationals.
CeilPercent(n) ==
    CHOOSE k \in 0..(n + 1) :
        /\ 100 * k >= threshold * n
        /\ 100 * (k - 1) < threshold * n

\* C14: for threshold in 0..100 the number of channels that
\* getProtectedChannels returns is ceil(threshold / 100 * P), P the number
\* of records with santoorReach > 0.
C14_ProtectedSize ==
    Ranked => Len(protectedList) = CeilPercent(Cardinality(Present))

DistinctNames ==
    \A i, j \in Records : i # j => channels[i].channel # channels[j].channel

Returned(i) == includes(protectedList, channels[i].channel)

\* The record of a list of distinct names that carries a given name.
RecordOf(name) == CHOOSE i \in Records : channels[i].channel = name

\* C15: getProtectedChannels returns the first k of the records with
\* santoorReach > 0 in descending order of santoorReach: a returned channel
\* has at least the reach of every present channel that is not returned,
\* and of two records of equal reach the earlier of the input comes first.
C15_TopByReach ==
    (Ranked /\ DistinctNames) =>
        /\ \A k \in 1..Len(protectedList) :
            \E i \in Present : channels[i].channel = protectedList[k]
        /\ \A i, j \in Present : (Returned(i) /\ ~Returned(j)) =>
            /\ channels[i].santoorReach >= channels[j].santoorReach
            /\ channels[i].santoorReach = channels[j].santoorReach => i < j
        /\ \A k, l \in 1..Len(protectedList) : k < l =>
            LET i == RecordOf(protectedList[k])
                j == RecordOf(protectedList[l])
            IN  /\ channels[i].santoorReach >= channels[j].santoorReach
                /\ channels[i].santoorReach = channels[j].santoorReach
                   => i < j

\* Of two channels of equal reach the first of the input alone is returned.
C15_Witness ==
    /\ Ranked /\ DistinctNames
    /\ Len(channels) = 2 /\ Len(protectedList) = 1
    /\ channels[1].santoorReach = channels[2].santoorReach
    /\ protectedList[1] = channels[1].channel

\* C16: getProtectedChannels returns nothing for an empty list and for
\* threshold 0, and for threshold 100 exactly the channels of the records
\* with santoorReach > 0.
C16_EdgeCases ==
    Ranked =>
        /\ channels = <<>> => protectedList = <<>>
        /\ threshold = 0 => protectedList = <<>>
        /\ threshold = 100 =>
            /\ Len(protectedList) = Cardinality(Present)
            /\ {protectedList[k] : k \in 1..Len(protectedList)}
               = {channels[i].channel : i \in Present}

\* At threshold 100 a list with an absent and a present channel returns the
\* present one alone.
C16_Witness ==
    /\ Ranked /\ threshold = 100
    /\ Len(channels) = 2 /\ Cardinality(Present) = 1
    /\ Len(protectedList) = 1

\* The record is given INCREASE.
Increased(i) == HasEntry(i) /\ Given(i).recommendation = "INCREASE"

\* C17 as stated: a record with santoorReach > 0 and gap = -1.5 is not
\* given INCREASE at intensity 5 and is given INCREASE at intensity 30.
C17_Original ==
    Ran => \A i \in Records : Unique(i) =>
        ((channels[i].santoorReach > 0 /\ channels[i].gap = -15) =>
            /\ intensity = 5 => ~Increased(i)
            /\ intensity = 30 => Increased(i))

\* C17 amended: the same for a record whose indexVsCompetition is below 90,
\* the index cutoff at intensity 30.
C17_ScenarioE ==
    Ran => \A i \in Records : Unique(i) =>
        ((/\ channels[i].santoorReach > 0 /\ channels[i].gap = -15
          /\ channels[i].indexVsCompetition < 90) =>
            /\ intensity = 5 => ~Increased(i)
            /\ intensity = 30 => Increased(i))

\* At intensity 30 the borderline record with index 40 is given INCREASE.
C17_Witness ==
    /\ Ran /\ intensity = 30
    /\ \E i \in Records :
        /\ Unique(i)
        /\ channels[i].gap = -15 /\ channels[i].indexVsCompetition = 40
        /\ IsGiven(i, "INCREASE", "LOW")

\* C19: every entry of the map is stored under its own channel field, every
\* key is the channel of an input record, and there are no more entries
\* than channel names.
C19_KeyedByChannel ==
    Ran =>
        /\ \A k \in DOMAIN results :
            /\ results[k].channel = k
            /\ \E i \in Records : channels[i].channel = k
        /\ Cardinality(DOMAIN results)
           <= Cardinality({channels[i].channel : i \in Records})

\* Two records of one channel name, both with an entry to write, leave one
\* entry.
C19_Witness ==
    /\ Ran /\ Len(channels) = 2
    /\ channels[1].channel = channels[2].channel
    /\ channels[1].santoorReach > 0 /\ channels[2].santoorReach > 0
    /\ Cardinality(DOMAIN results) = 1

\* C20: runOptimization and getProtectedChannels leave the record list as
\* it was: the same records, in the same order, with the same fields.
C20_InputUnchanged == [][channels' = channels]_vars

\* Both functions have run on a list that is not in descending order of
\* reach.
C20_Witness ==
    /\ Ran /\ Ranked
    /\ Len(channels) = 2 /\ Len(protectedList) = 2
    /\ channels[1].santoorReach < channels[2].santoorReach

----------------------------------------------------------------------------
(* Properties of the App *)

\* The SCR that a change to market m selects.
SCRAfterMarketChange(m) ==
    IF includes(scrsOf(m), m \o " Overall") THEN m \o " Overall"
    ELSE scrsOf(m)[1]

\* The selected market has SCRs and the selected SCR is one of them, or
\* the market has none.
SCROfMarket(st) ==
    Len(scrsOf(st.market)) > 0 => includes(scrsOf(st.market), st.scr)

SameMaps(m1, m2) ==
    DOMAIN m1 = DOMAIN m2 /\ \A k \in DOMAIN m1 : m1[k] = m2[k]

\* Every effect has run and every update is rendered.
AtRest(st) == st.pendingEffects = {} /\ DOMAIN st.pending = {}

\* The value that the state takes once the waiting updates are rendered.
Upcoming(st, field) ==
    IF field \in DOMAIN st.pending THEN st.pending[field] ELSE st[field]

\* C21: when all effects have run and all updates are rendered, the
\* selected SCR is one of the SCRs of the selected market when the market
\* has any; the task of a change to a market with SCRs ends with
\* '<market> Overall' as the SCR to come when the market has it and with
\* the market's first SCR otherwise.
C21_SelectedSCR ==
    [][/\ AtRest(app') => SCROfMarket(app')
       /\ (app'.market # app.market /\ Len(scrsOf(app'.market)) > 0)
            => Upcoming(app', "scr") = SCRAfterMarketChange(app'.market)]_vars

\* The market was changed to one without an Overall SCR, all effects have
\* run and its first SCR is selected.
C21_Witness ==
    /\ AtRest(app)
    /\ app.market = "Karnataka"
    /\ ~includes(scrsOf(app.market), "Karnataka Overall")
    /\ app.scr = scrsOf(app.market)[1]

\* C22: a click on any column header of the table makes that column the
\* sort column with direction 'desc' when it was not the sort column, and
\* flips the direction when it was.
C22_EveryHeaderSorts ==
    \A col \in headerKeys(app) :
        LET after == applyUpdates(app, clickHeader(app, col))
        IN  IF app.sortCol = col
            THEN /\ after.sortCol = col
                 /\ after.sortDir = (IF app.sortDir = "asc" THEN "desc"
                                     ELSE "asc")
            ELSE after.sortCol = col /\ after.sortDir = "desc"

\* C23: at rest with isOptimized = true, results is what runOptimization
\* gives for the displayed list, the intensity and the threshold of that
\* state, the displayed list being empty or not.
C23_ResultsCurrent ==
    (AtRest(app) /\ app.isOptimized) =>
        SameMaps(app.results,
                 runOptimization(app.displayChannels, app.intensity,
                                 app.threshold))

\* C24: at rest with isOptimized = false the results map is empty.
C24_ResetClearsResults ==
    (AtRest(app) /\ ~app.isOptimized) => DOMAIN app.results = {}

----------------------------------------------------------------------------
(* Properties of repeated calls: the App calls the engine again after a   *)
(* slider move or a new table order                                       *)

DistinctChannelNames(list) ==
    \A i, j \in 1..Len(list) : i # j => list[i].channel # list[j].channel

\* No two records of the list have the same santoorReach above zero.
NoReachTies(list) ==
    \A i, j \in 1..Len(list) :
        (i # j /\ list[i].santoorReach > 0)
            => list[i].santoorReach # list[j].santoorReach

\* Same keys, and per key the same recommendation and priority.
SameAdvice(m1, m2) ==
    /\ DOMAIN m1 = DOMAIN m2
    /\ \A k \in DOMAIN m1 :
          /\ m1[k].recommendation = m2[k].recommendation
          /\ m1[k].priority = m2[k].priority

\* The step is the task of a user event on an optimized App at rest: the
\* results shown are those of the last call, and the third effect calls
\* the engine again when a dependency of it changed.
CalledAgain == AtRest(app) /\ app.isOptimized /\ app'.isOptimized

ChannelsGiven(map, rec) ==
    {k \in DOMAIN map : map[k].recommendation = rec}

\* C25: when the threshold changes and the engine is called again on the
\* same list of distinct channel names at the same intensity, the new map
\* has the keys of the old one and gives every key the recommendation and
\* the priority it had.
C25_ThresholdIndependent ==
    [][(/\ CalledAgain
        /\ app'.threshold # app.threshold
        /\ app'.intensity = app.intensity
        /\ app'.displayChannels = app.displayChannels
        /\ DistinctChannelNames(app.displayChannels))
       => SameAdvice(app.results, Upcoming(app', "results"))]_vars

\* The engine was called at a threshold other than the default, on two
\* channels, and protected one of them only.
C25_Witness ==
    /\ AtRest(app)
    /\ app.isOptimized /\ app.threshold = 50
    /\ Len(app.displayChannels) = 2
    /\ DistinctChannelNames(app.displayChannels)
    /\ \E k \in DOMAIN app.results :
          app.results[k].reason = "Top 50% - protected"
    /\ \E k \in DOMAIN app.results :
          app.results[k].reason = "Stable performance"

\* C26 as stated: when the table order changes and the engine is called
\* again on the same records of distinct channel names, the new map equals
\* the old one, reasons included.
C26_Original ==
    [][(/\ CalledAgain
        /\ app'.threshold = app.threshold
        /\ app'.intensity = app.intensity
        /\ app'.displayChannels \in PermutationsOf(app.displayChannels)
        /\ DistinctChannelNames(app.displayChannels))
       => SameMaps(app.results, Upcoming(app', "results"))]_vars

\* C26: when the table order changes and the engine is called again on
\* the same records of distinct channel names, the new map has the keys of
\* the old one with the same recommendation and priority per key, and the
\* same reason too when no two records have the same santoorReach above
\* zero.
C26_OrderIndependent ==
    [][(/\ CalledAgain
        /\ app'.threshold = app.threshold
        /\ app'.intensity = app.intensity
        /\ app'.displayChannels \in PermutationsOf(app.displayChannels)
        /\ DistinctChannelNames(app.displayChannels))
       => /\ SameAdvice(app.results, Upcoming(app', "results"))
          /\ NoReachTies(app.displayChannels)
                => SameMaps(app.results, Upcoming(app', "results"))]_vars

\* The engine was called on two channels of different reach listed weaker
\* first, and protected the stronger one.
C26_Witness ==
    /\ AtRest(app)
    /\ app.isOptimized /\ app.threshold = 50
    /\ Len(app.displayChannels) = 2
    /\ DistinctChannelNames(app.displayChannels)
    /\ 0 < app.displayChannels[1].santoorReach
    /\ app.displayChannels[1].santoorReach
          < app.displayChannels[2].santoorReach
    /\ app.displayChannels[2].channel \in DOMAIN app.results
    /\ app.results[app.displayChannels[2].channel].reason
          = "Top 50% - protected"

\* C27: when the intensity changes and the engine is called again on the
\* same list at the same threshold, the channels given ADD are the same,
\* and when the intensity went up every channel that was given INCREASE
\* is given INCREASE with the same priority.
C27_IncreaseGrows ==
    [][(/\ CalledAgain
        /\ app'.intensity # app.intensity
        /\ app'.threshold = app.threshold
        /\ app'.displayChannels = app.displayChannels)
       => /\ ChannelsGiven(Upcoming(app', "results"), "ADD")
                = ChannelsGiven(app.results, "ADD")
          /\ app'.intensity > app.intensity
                => \A k \in ChannelsGiven(app.results, "INCREASE") :
                      /\ k \in ChannelsGiven(Upcoming(app', "results"),
                                             "INCREASE")
                      /\ Upcoming(app', "results")[k].priority
                            = app.results[k].priority]_vars

\* The engine was called at the highest intensity stop and gave INCREASE
\* to a channel that the lowest stop does not give it to, and ADD to
\* another.
C27_Witness ==
    /\ AtRest(app)
    /\ app.isOptimized /\ app.intensity = 21
    /\ ChannelsGiven(app.results, "ADD") # {}
    /\ \E k \in ChannelsGiven(app.results, "INCREASE") :
          k \notin ChannelsGiven(
                      runOptimization(app.displayChannels, 10,
                                      app.threshold), "INCREASE")

====
